---- MODULE Spec2Model ----
(***************************************************************************)
(* A model of src/src/container.js: the Container and ContainerFs          *)
(* wrappers of docker-api.  Every operation resolves its (opts, id)        *)
(* arguments, builds a call descriptor, creates a promise and hands the    *)
(* descriptor and a callback to modem.dial.  The modem is the environment: *)
(* it invokes the callback of a dialled call with (err, result).           *)
(*                                                                         *)
(* JavaScript values are records [t, v]: t is the value's typeof ("string",*)
(* "object", "boolean", "undefined") and v names the value.                *)
(***************************************************************************)
EXTENDS Naturals, Sequences, FiniteSets, TLC

\* ---------------------------------------------------------------- bounds
MaxPromises == 2    \* promises created (calls that reach modem.dial)
MaxHandles == 2     \* Container objects alive in the heap
MaxList == 1        \* entries of a list response

\* ---------------------------------------------------------------- values
Undef == [t |-> "undefined", v |-> ""]
Str(s) == [t |-> "string", v |-> s]
Obj(n) == [t |-> "object", v |-> n]
Bool(b) == [t |-> "boolean", v |-> b]

\* JavaScript truthiness (the `!x` and `if (x)` tests of the source)
Truthy(x) ==
  CASE x.t = "undefined" -> FALSE
    [] x.t = "string" -> x.v # ""
    [] x.t = "boolean" -> x.v = "true"
    [] OTHER -> TRUE

\* `${x}` in a template literal
TemplateString(x) ==
  CASE x.t = "undefined" -> "undefined"
    [] x.t = "string" -> x.v
    [] x.t = "boolean" -> x.v
    [] OTHER -> "[object Object]"

\* x.stream: a TypeError on undefined, undefined on a string, the
\* property on an option bag
GetStream(x) ==
  CASE x.t = "undefined" -> [threw |-> TRUE, value |-> Undef]
    [] x = Obj("{stream:true}") -> [threw |-> FALSE, value |-> Bool("true")]
    [] OTHER -> [threw |-> FALSE, value |-> Undef]

\* the arguments a caller passes
OptsArgs == {Undef, Str("a"), Obj("{}"), Obj("{stream:true}")}
\* the option bags a caller passes to list and create
BagArgs == {Undef, Obj("{}")}
IdArgs == {Undef, Str("b")}
\* the errors the modem reports
Errs == {Obj("E1"), Obj("E2")}

\* ---------------------------------------------------------------- handles
\* A response body: an object with any of the keys Id and id.
ConfVals(k) == IF k = "Id" THEN {Str("a"), Str("b")} ELSE {Str("c")}
Confs ==
  UNION {{c \in [K -> UNION {ConfVals(k) : k \in K}] :
            \A k \in K : c[k] \in ConfVals(k)} : K \in SUBSET {"Id", "id"}}

\* conf.Id and this.id: undefined when the object has no such property
Get(o, k) == IF k \in DOMAIN o THEN o[k] ELSE Undef

\* new Container(modem, id)
NewContainer(id) ==
  [k \in {"modem", "id", "fs"} |->
     CASE k = "modem" -> Obj("modem") [] k = "id" -> id [] OTHER -> Obj("fs")]

\* Object.assign(target, src): every own property of src is written to target
ObjectAssign(target, src) ==
  [k \in DOMAIN target \cup DOMAIN src |->
     IF k \in DOMAIN src THEN src[k] ELSE target[k]]

\* ------------------------------------------------------ argument resolution
\* Container.__processArguments without its second test: the id is
\* never defaulted to this.id
Container_processArguments_NoDefault(opts, id, self) ==
  LET id1 == IF opts.t = "string" /\ ~Truthy(id) THEN opts ELSE id
  IN  [kind |-> "object", opts |-> opts, id |-> id1]

\* Container.__processArguments; `self` is the handle (this)
Container_processArguments(opts, id, self) ==
  LET id1 == IF opts.t = "string" /\ ~Truthy(id) THEN opts ELSE id
      id2 == IF ~Truthy(opts) /\ ~Truthy(id1) THEN Get(self, "id") ELSE id1
  IN  [kind |-> "object", opts |-> opts, id |-> id2]

\* ContainerFs.__processArguments; `container` is this.container
ContainerFs_processArguments(opts, id, container) ==
  LET id1 == IF opts.t = "string" /\ ~Truthy(id) THEN opts ELSE id
      id2 == IF ~Truthy(opts) /\ ~Truthy(id1) THEN Get(container, "id") ELSE id1
  IN  [kind |-> "object", opts |-> opts, id |-> id2]

\* `[ x, y ] = r`: array destructuring takes r's iterator; a plain object
\* has none, and the assignment throws a TypeError before x or y is written
ArrayDestructure(r) ==
  IF r.kind = "array"
    THEN [threw |-> FALSE, first |-> r.opts, second |-> r.id]
    ELSE [threw |-> TRUE, first |-> Undef, second |-> Undef]

\* ---------------------------------------------------------- call descriptors
OK == Bool("true")
BadRequest == Str("bad request")
NoSuch == Str("no such container")
ServerError == Str("server error")

\* path `/containers/${id}<suffix>`
IdPath(id, suffix) == <<"/containers/", TemplateString(id), suffix>>

Descriptor(path, method, opts, codes) ==
  [path |-> path, method |-> method, options |-> opts, statusCodes |-> codes]

\* The operations, by the shape of their parameter list.
OptsOps == {"list", "create"}
OptsIdOps == {"inspect", "top", "logs", "export", "stats", "resize", "start",
              "stop", "restart", "kill", "update", "rename", "attach",
              "wsattach", "delete", "fs.get", "fs.put"}
IdOps == {"fs.info", "changes", "pause", "unpause", "wait"}
FsOps == {"fs.info", "fs.get", "fs.put"}

\* The `const call = {...}` literal of each operation.
CallOf(op, opts, id) ==
  CASE op = "fs.info" -> Descriptor(IdPath(id, "/archive"), "HEAD", opts,
         200 :> OK @@ 404 :> BadRequest @@ 500 :> ServerError)
    [] op = "fs.get" -> Descriptor(IdPath(id, "/archive"), "GET", opts,
         200 :> OK @@ 400 :> BadRequest @@ 404 :> NoSuch @@ 500 :> ServerError)
    [] op = "fs.put" -> Descriptor(IdPath(id, "/archive"), "PUT", opts,
         200 :> OK @@ 400 :> BadRequest @@ 403 :> Str("permission denied")
         @@ 404 :> NoSuch @@ 500 :> ServerError)
    [] op = "list" -> Descriptor(<<"/containers/json">>, "GET", opts,
         200 :> OK @@ 400 :> BadRequest @@ 500 :> ServerError)
    [] op = "create" -> Descriptor(<<"/containers/json">>, "GET", opts,
         200 :> OK @@ 400 :> BadRequest @@ 404 :> NoSuch
         @@ 406 :> Str("impossible to attach") @@ 500 :> ServerError)
    [] op = "inspect" -> Descriptor(IdPath(id, "/json"), "GET", opts,
         200 :> OK @@ 404 :> NoSuch @@ 500 :> ServerError)
    [] op = "top" -> Descriptor(IdPath(id, "/top"), "GET", opts,
         200 :> OK @@ 404 :> NoSuch @@ 500 :> ServerError)
    [] op = "logs" -> Descriptor(IdPath(id, "/logs"), "GET", opts,
         101 :> OK @@ 200 :> OK @@ 404 :> NoSuch @@ 500 :> ServerError)
    [] op = "changes" -> Descriptor(IdPath(id, "/changes"), "GET", opts,
         200 :> OK @@ 404 :> NoSuch @@ 500 :> ServerError)
    [] op = "export" -> Descriptor(IdPath(id, "/export"), "GET", opts,
         200 :> OK @@ 404 :> NoSuch @@ 500 :> ServerError)
    [] op = "stats" -> Descriptor(IdPath(id, "/export"), "GET", opts,
         200 :> OK @@ 404 :> NoSuch @@ 500 :> ServerError)
    [] op = "resize" -> Descriptor(IdPath(id, "/resize"), "GET", opts,
         200 :> OK @@ 404 :> NoSuch @@ 500 :> ServerError)
    [] op = "start" -> Descriptor(IdPath(id, "/start"), "POST", opts,
         204 :> OK @@ 304 :> OK @@ 404 :> NoSuch @@ 500 :> ServerError)
    [] op = "stop" -> Descriptor(IdPath(id, "/stop"), "POST", opts,
         204 :> OK @@ 304 :> OK @@ 404 :> NoSuch @@ 500 :> ServerError)
    [] op = "restart" -> Descriptor(IdPath(id, "/restart"), "POST", opts,
         204 :> OK @@ 404 :> NoSuch @@ 500 :> ServerError)
    [] op = "kill" -> Descriptor(IdPath(id, "/kill"), "POST", opts,
         204 :> OK @@ 404 :> NoSuch @@ 500 :> ServerError)
    [] op = "update" -> Descriptor(IdPath(id, "/update"), "POST", opts,
         200 :> OK @@ 400 :> BadRequest @@ 404 :> NoSuch @@ 500 :> ServerError)
    [] op = "rename" -> Descriptor(IdPath(id, "/rename"), "POST", opts,
         204 :> OK @@ 404 :> NoSuch @@ 409 :> Str("name already taken")
         @@ 500 :> ServerError)
    [] op = "pause" -> Descriptor(IdPath(id, "/pause"), "POST", opts,
         204 :> OK @@ 404 :> NoSuch @@ 500 :> ServerError)
    [] op = "unpause" -> Descriptor(IdPath(id, "/unpause"), "POST", opts,
         204 :> OK @@ 404 :> NoSuch @@ 500 :> ServerError)
    [] op = "attach" -> Descriptor(IdPath(id, "/attach"), "POST", opts,
         101 :> OK @@ 200 :> OK @@ 400 :> BadRequest @@ 404 :> NoSuch
         @@ 500 :> ServerError)
    [] op = "wsattach" -> Descriptor(IdPath(id, "/attach/ws"), "GET", opts,
         200 :> OK @@ 400 :> BadRequest @@ 404 :> NoSuch @@ 500 :> ServerError)
    [] op = "wait" -> Descriptor(IdPath(id, "/wait"), "POST", opts,
         200 :> OK @@ 404 :> NoSuch @@ 500 :> ServerError)
    [] op = "delete" -> Descriptor(IdPath(id, ""), "DELETE", opts,
         204 :> OK @@ 400 :> BadRequest @@ 404 :> NoSuch @@ 500 :> ServerError)

\* ------------------------------------------------------------------- state
VARIABLES
  handles,    \* the Container objects alive, handles[1] the client's own
  promises,   \* the promises the operations returned, in creation order
  dialled,    \* the (call, callback) pairs handed to modem.dial, in order
  last        \* the latest step: an invocation or a callback, and its outcome

vars == <<handles, promises, dialled, last>>

NoStep ==
  [kind |-> "init", op |-> "", h |-> 0, a1 |-> Undef, a2 |-> Undef,
   ropts |-> Undef, rid |-> Undef, outcome |-> "none", error |-> "",
   p |-> 0, err |-> Undef, res |-> <<>>]

\* The client holds one handle, `new Container(modem, "r")`.
Init ==
  /\ handles = <<NewContainer(Str("r"))>>
  /\ promises = <<>>
  /\ dialled = <<>>
  /\ last = NoStep

\* ------------------------------------------------------------- invocation
\* The synchronous part of an operation up to `return new Promise(...)`:
\* what __processArguments returned (ropts, rid), whether a statement threw,
\* and the opts and id bindings the call literal and the callback read.
Prologue(op, a1, a2, self) ==
  IF op \in OptsOps
    THEN [threw |-> FALSE, error |-> "", ropts |-> Undef, rid |-> Undef,
          opts |-> a1, id |-> Undef]
    ELSE
      LET x == IF op \in IdOps THEN Undef ELSE a2
          r == IF op \in FsOps
                 THEN ContainerFs_processArguments(a1, x, self)
                 ELSE Container_processArguments(a1, x, self)
          d == ArrayDestructure(r)
      IN  IF d.threw
            THEN [threw |-> TRUE, error |-> "TypeError", ropts |-> r.opts,
                  rid |-> r.id, opts |-> a1, id |-> x]
          ELSE IF op \in IdOps
            \* `_` and `opts` are bound nowhere: strict-mode code throws
            THEN [threw |-> TRUE, error |-> "ReferenceError", ropts |-> r.opts,
                  rid |-> r.id, opts |-> Undef, id |-> d.second]
          ELSE [threw |-> FALSE, error |-> "", ropts |-> r.opts, rid |-> r.id,
                opts |-> d.first, id |-> d.second]

\* new Promise(...): pending, with the bindings its callback closes over
NewPromise(op, opts, id) ==
  [op |-> op, opts |-> opts, id |-> id, status |-> "pending",
   value |-> Undef, refs |-> <<>>, listening |-> FALSE]

\* An exception nobody catches ends the client process: no step follows it.
Running == last.outcome # "threw"

Invoke(op, h, a1, a2) ==
  /\ Running
  /\ LET pro == Prologue(op, a1, a2, handles[h])
         step == [NoStep EXCEPT !.kind = "invoke", !.op = op, !.h = h,
                    !.a1 = a1, !.a2 = a2, !.ropts = pro.ropts, !.rid = pro.rid]
     IN  IF pro.threw
           THEN /\ last' = [step EXCEPT !.outcome = "threw", !.error = pro.error]
                /\ UNCHANGED <<handles, promises, dialled>>
           ELSE /\ Len(promises) < MaxPromises
                /\ promises' =
                     Append(promises, NewPromise(op, pro.opts, pro.id))
                /\ dialled' = Append(dialled,
                     [p |-> Len(promises) + 1,
                      call |-> CallOf(op, pro.opts, pro.id)])
                /\ last' = [step EXCEPT !.outcome = "promise",
                                        !.p = Len(promises) + 1]
                /\ UNCHANGED handles

Hs == 1..Len(handles)

List == \E h \in Hs, o \in BagArgs : Invoke("list", h, o, Undef)
Create == \E h \in Hs, o \in BagArgs : Invoke("create", h, o, Undef)
Inspect == \E h \in Hs, o \in OptsArgs, i \in IdArgs : Invoke("inspect", h, o, i)
Top == \E h \in Hs, o \in OptsArgs, i \in IdArgs : Invoke("top", h, o, i)
Logs == \E h \in Hs, o \in OptsArgs, i \in IdArgs : Invoke("logs", h, o, i)
Changes == \E h \in Hs, i \in IdArgs : Invoke("changes", h, i, Undef)
Export == \E h \in Hs, o \in OptsArgs, i \in IdArgs : Invoke("export", h, o, i)
Stats == \E h \in Hs, o \in OptsArgs, i \in IdArgs : Invoke("stats", h, o, i)
Resize == \E h \in Hs, o \in OptsArgs, i \in IdArgs : Invoke("resize", h, o, i)
Start == \E h \in Hs, o \in OptsArgs, i \in IdArgs : Invoke("start", h, o, i)
Stop == \E h \in Hs, o \in OptsArgs, i \in IdArgs : Invoke("stop", h, o, i)
Restart == \E h \in Hs, o \in OptsArgs, i \in IdArgs : Invoke("restart", h, o, i)
Kill == \E h \in Hs, o \in OptsArgs, i \in IdArgs : Invoke("kill", h, o, i)
Update == \E h \in Hs, o \in OptsArgs, i \in IdArgs : Invoke("update", h, o, i)
Rename == \E h \in Hs, o \in OptsArgs, i \in IdArgs : Invoke("rename", h, o, i)
Pause == \E h \in Hs, i \in IdArgs : Invoke("pause", h, i, Undef)
Unpause == \E h \in Hs, i \in IdArgs : Invoke("unpause", h, i, Undef)
Attach == \E h \in Hs, o \in OptsArgs, i \in IdArgs : Invoke("attach", h, o, i)
Wsattach == \E h \in Hs, o \in OptsArgs, i \in IdArgs : Invoke("wsattach", h, o, i)
Wait == \E h \in Hs, i \in IdArgs : Invoke("wait", h, i, Undef)
Delete == \E h \in Hs, o \in OptsArgs, i \in IdArgs : Invoke("delete", h, o, i)
FsInfo == \E h \in Hs, i \in IdArgs : Invoke("fs.info", h, i, Undef)
FsGet == \E h \in Hs, o \in OptsArgs, i \in IdArgs : Invoke("fs.get", h, o, i)
FsPut == \E h \in Hs, o \in OptsArgs, i \in IdArgs : Invoke("fs.put", h, o, i)

\* -------------------------------------------------------------- callbacks
\* What one run of a dial callback does: it calls resolve or reject
\* ("resolve", "reject"), throws ("throw"), or only registers the stream
\* listeners ("listen"); objs are the Container objects the value refers to.
Rejects(err) == [how |-> "reject", value |-> err, objs |-> <<>>]
Resolves(value, objs) == [how |-> "resolve", value |-> value, objs |-> objs]

\* list's callback without `if (err) return reject(err)`
ListCallback_Swallow(err, containers) ==
  Resolves(Obj("array"),
    [i \in 1..Len(containers) |->
       ObjectAssign(NewContainer(Get(containers[i], "Id")), containers[i])])

\* list: (err, containers) => ...
ListCallback(err, containers) ==
  IF Truthy(err) THEN Rejects(err)
  ELSE Resolves(Obj("array"),
         [i \in 1..Len(containers) |->
            ObjectAssign(NewContainer(Get(containers[i], "Id")), containers[i])])

\* create: (err, conf) => ...
CreateCallback(err, conf) ==
  IF Truthy(err) THEN Rejects(err)
  ELSE Resolves(Obj("container"),
         <<ObjectAssign(NewContainer(Get(conf, "Id")), conf)>>)

\* inspect: (err, conf) => ..., closing over the resolved id
InspectCallback(err, conf, id) ==
  IF Truthy(err) THEN Rejects(err)
  ELSE Resolves(Obj("container"), <<ObjectAssign(NewContainer(id), conf)>>)

\* export: (err, tarStream) => ..., closing over opts.  Without the stream
\* flag it registers the 'data' and 'end' listeners and returns ("listen").
ExportCallback(err, tarStream, opts) ==
  IF Truthy(err) THEN Rejects(err)
  ELSE IF GetStream(opts).threw
    THEN [how |-> "throw", value |-> Undef, objs |-> <<>>]
  ELSE IF Truthy(GetStream(opts).value) THEN Resolves(tarStream, <<>>)
  ELSE [how |-> "listen", value |-> Undef, objs |-> <<>>]

\* (err, result) => { if (err) return reject(err); resolve(result) }
ValueCallback(err, result) ==
  IF Truthy(err) THEN Rejects(err) ELSE Resolves(result, <<>>)

\* (err) => { if (err) return reject(err); resolve() }
VoidCallback(err) ==
  IF Truthy(err) THEN Rejects(err) ELSE Resolves(Undef, <<>>)

VoidOps == {"start", "stop", "restart", "kill", "rename", "pause", "unpause",
            "delete"}

\* the callback the operation of promise pr handed to dial
Callback(pr, err, res) ==
  CASE pr.op = "list" -> ListCallback(err, res)
    [] pr.op = "create" -> CreateCallback(err, IF res = <<>> THEN <<>> ELSE res[1])
    [] pr.op = "inspect" ->
         InspectCallback(err, IF res = <<>> THEN <<>> ELSE res[1], pr.id)
    [] pr.op = "export" -> ExportCallback(err, Obj("stream"), pr.opts)
    [] pr.op \in VoidOps -> VoidCallback(err)
    [] OTHER -> ValueCallback(err, Obj("result"))

\* resolve and reject as plain callbacks: every call overwrites the outcome
Settle_Overwrite(pr, how, value, refs) ==
  [pr EXCEPT !.status = IF how = "resolve" THEN "resolved" ELSE "rejected",
             !.value = value, !.refs = refs]

\* The resolve and reject functions of `new Promise((resolve, reject) => ...)`:
\* the first call settles the promise, every later call does nothing.
Settle(pr, how, value, refs) ==
  IF pr.status = "pending"
    THEN [pr EXCEPT !.status = IF how = "resolve" THEN "resolved" ELSE "rejected",
                    !.value = value, !.refs = refs]
    ELSE pr

\* the bodies the modem delivers without an error, as a sequence of confs
Results(op) ==
  CASE op = "list" -> UNION {[1..n -> Confs] : n \in 0..MaxList}
    [] op \in {"create", "inspect"} -> {<<c>> : c \in Confs}
    [] OTHER -> {<<>>}

\* The modem invokes the callback of dialled call p with (err, result).
DialCallback(p) ==
  /\ Running
  /\ p \in 1..Len(promises)
  /\ \E err \in Errs \cup {Undef} :
     \E res \in (IF Truthy(err) THEN {<<>>} ELSE Results(promises[p].op)) :
       LET pr == promises[p]
           out == Callback(pr, err, res)
           \* objects no settled value refers to are garbage and not kept
           kept == IF pr.status = "pending" /\ out.how = "resolve"
                     THEN out.objs ELSE <<>>
           refs == [i \in 1..Len(kept) |-> Len(handles) + i]
           pr2 == CASE out.how \in {"resolve", "reject"} ->
                         Settle(pr, out.how, out.value, refs)
                    [] out.how = "listen" -> [pr EXCEPT !.listening = TRUE]
                    [] OTHER -> pr
       IN  /\ Len(handles) + Len(kept) <= MaxHandles
           /\ handles' = handles \o kept
           /\ promises' = [promises EXCEPT ![p] = pr2]
           /\ last' = [NoStep EXCEPT !.kind = "callback", !.op = pr.op,
                         !.p = p, !.err = err, !.res = res,
                         !.outcome = IF out.how = "throw" THEN "threw" ELSE "returned",
                         !.error = IF out.how = "throw" THEN "TypeError" ELSE ""]
           /\ UNCHANGED dialled

Callbacks == \E p \in 1..MaxPromises : DialCallback(p)

Next ==
  \/ List \/ Create \/ Inspect \/ Top \/ Logs \/ Changes \/ Export \/ Stats
  \/ Resize \/ Start \/ Stop \/ Restart \/ Kill \/ Update \/ Rename \/ Pause
  \/ Unpause \/ Attach \/ Wsattach \/ Wait \/ Delete \/ FsInfo \/ FsGet
  \/ FsPut \/ Callbacks

Spec == Init /\ [][Next]_vars

\* The modem answers every dialled call: its callback is eventually invoked.
FairSpec == Spec /\ \A p \in 1..MaxPromises : WF_vars(DialCallback(p))

\* -------------------------------------------------------------- properties
IsInvoke(ops) == last.kind = "invoke" /\ last.op \in ops
\* the handle the latest invocation was made on
Self == handles[last.h]
\* the descriptors handed to dial for promise p
DialledFor(p) == {i \in DOMAIN dialled : dialled[i].p = p}
\* an option bag that is absent or has no entries
EmptyBag(x) == x \in {Undef, Obj("{}")}
\* this step runs the callback of promise p
CallbackStep(p) == last' # last /\ last'.kind = "callback" /\ last'.p = p

\* C1: for both wrappers, when the first argument is a non-empty string and
\* the second is absent, __processArguments returns the first argument as
\* the id and an empty or absent option bag (not the identifier string).
C1_StringFirst ==
  (/\ IsInvoke(OptsIdOps)
   /\ last.a1.t = "string" /\ Truthy(last.a1) /\ last.a2 = Undef)
  => (last.rid = last.a1 /\ EmptyBag(last.ropts))

\* C2: when both arguments are absent, __processArguments returns the
\* stored id of the handle (this.id, this.container.id) as the id, and the
\* two wrappers return the same id for the same handle.
C2_BothAbsent ==
  /\ (/\ IsInvoke(OptsIdOps \cup IdOps)
      /\ last.a1 = Undef /\ last.a2 = Undef)
     => last.rid = Get(Self, "id")
  /\ \A h \in Hs :
       /\ Container_processArguments(Undef, Undef, handles[h]).id
            = Get(handles[h], "id")
       /\ ContainerFs_processArguments(Undef, Undef, handles[h]).id
            = Container_processArguments(Undef, Undef, handles[h]).id

\* C2's case: an operation of each wrapper was called with no argument on
\* a handle that create or list returned, whose stored id is a string.
C2_Witness ==
  /\ IsInvoke({"fs.get"}) /\ last.a1 = Undef /\ last.a2 = Undef
  /\ last.h = 2 /\ last.rid.t = "string" /\ last.rid # Str("r")

\* C3: for every (opts, id) operation called without an id (with no first
\* argument or with an option bag), the path of the descriptor handed to
\* dial embeds the id of the handle the operation was invoked on.
C3_HandleIdInPath ==
  (/\ IsInvoke(OptsIdOps)
   /\ last.a2 = Undef /\ last.a1.t # "string")
  => /\ last.outcome = "promise"
     /\ DialledFor(last.p) # {}
     /\ \A i \in DialledFor(last.p) :
          dialled[i].call.path[2] = TemplateString(Get(Self, "id"))

\* C4: every call, with any arguments, yields a promise, and every promise
\* is eventually settled once the modem answers.
C4_EveryCallSettles ==
  /\ [](last.kind = "invoke" => last.outcome = "promise")
  /\ \A p \in 1..MaxPromises :
       [](p <= Len(promises) => <>(promises[p].status # "pending"))

\* C5: a settled promise keeps its outcome and its value whatever happens
\* next: a later run of its callback, or the callbacks of other calls.
C5_SettledOnce ==
  [][\A p \in 1..Len(promises) :
       promises[p].status # "pending"
       => /\ promises'[p].status = promises[p].status
          /\ promises'[p].value = promises[p].value
          /\ promises'[p].refs = promises[p].refs
          /\ \A r \in 1..Len(promises[p].refs) :
               handles'[promises[p].refs[r]] = handles[promises[p].refs[r]]]_vars

\* C5's case: two calls are in flight, and the callback of a call whose
\* promise is rejected has run again, this time with a result.
C5_Witness ==
  /\ Len(promises) = 2
  /\ last.kind = "callback" /\ last.err = Undef /\ last.res # <<>>
  /\ promises[last.p].status = "rejected"

\* C6: when the callback of a pending call runs with an error, the promise
\* is rejected with that error; a promise is resolved only by a run of its
\* callback without an error; a rejected promise holds an error dial gave.
C6_ErrorsSurface ==
  [][\A p \in 1..Len(promises) :
       /\ (promises[p].status = "pending" /\ CallbackStep(p)
             /\ Truthy(last'.err))
          => (promises'[p].status = "rejected"
                /\ promises'[p].value = last'.err)
       /\ (promises[p].status # "resolved" /\ promises'[p].status = "resolved")
          => (CallbackStep(p) /\ ~Truthy(last'.err))]_vars

\* C6's case: dial reported error E2 to list and the promise is rejected
\* with E2.
C6_Witness ==
  /\ last.kind = "callback" /\ last.op = "list" /\ last.err = Obj("E2")
  /\ promises[last.p].status = "rejected"
  /\ promises[last.p].value = Obj("E2")

\* this step runs create's callback without an error and settles promise p
CreateResolves(p) ==
  /\ promises[p].op = "create" /\ promises[p].status = "pending"
  /\ CallbackStep(p) /\ ~Truthy(last'.err)

\* the promise of p now holds one new Container carrying conf's attributes
HoldsNewHandle(p, conf) ==
  /\ promises'[p].status = "resolved"
  /\ promises'[p].refs = <<Len(handles) + 1>>
  /\ Len(handles') = Len(handles) + 1
  /\ {"modem", "fs", "id"} \subseteq DOMAIN handles'[Len(handles')]
  /\ \A k \in DOMAIN conf : handles'[Len(handles')][k] = conf[k]

\* C7: for every body conf delivered to create without error, whatever
\* its attribute keys, the promise resolves with a new handle that carries
\* conf's attributes and whose id is conf.Id.
C7_CreateIdAnyConf ==
  [][\A p \in 1..Len(promises) :
       CreateResolves(p)
       => /\ HoldsNewHandle(p, last'.res[1])
          /\ Get(handles'[Len(handles')], "id") = Get(last'.res[1], "Id")]_vars

\* C8: start() on a handle with stored id X hands dial exactly one
\* descriptor, POST /containers/X/start with 204 mapped to success, and
\* its promise resolves with no value when dial reports success.
C8_StartNoArgs ==
  /\ (IsInvoke({"start"}) /\ last.a1 = Undef /\ last.a2 = Undef)
     => /\ last.outcome = "promise"
        /\ Cardinality(DialledFor(last.p)) = 1
        /\ \A i \in DialledFor(last.p) :
             /\ dialled[i].call.method = "POST"
             /\ dialled[i].call.path = IdPath(Get(Self, "id"), "/start")
             /\ 204 \in DOMAIN dialled[i].call.statusCodes
             /\ dialled[i].call.statusCodes[204] = OK
  /\ (last.kind = "callback" /\ last.op = "start" /\ ~Truthy(last.err))
     => /\ promises[last.p].status = "resolved"
        /\ promises[last.p].value = Undef

\* C9: export with the streaming flag returns a promise that resolves with
\* the stream as soon as dial delivers it, no listener being registered.
C9_StreamingExport ==
  /\ (IsInvoke({"export"}) /\ last.a1 = Obj("{stream:true}"))
     => last.outcome = "promise"
  /\ (/\ last.kind = "callback" /\ last.op = "export" /\ ~Truthy(last.err)
      /\ promises[last.p].opts = Obj("{stream:true}"))
     => /\ promises[last.p].status = "resolved"
        /\ promises[last.p].value = Obj("stream")
        /\ ~promises[last.p].listening

\* C10: export without the streaming flag (no option bag, or a bag without
\* stream) returns a promise that is not resolved when dial delivers the
\* stream: the callback registers the listeners and waits for 'end'.
C10_BufferedExport ==
  /\ (IsInvoke({"export"}) /\ EmptyBag(last.a1))
     => last.outcome = "promise"
  /\ (/\ last.kind = "callback" /\ last.op = "export" /\ ~Truthy(last.err)
      /\ EmptyBag(promises[last.p].opts))
     => /\ last.outcome = "returned"
        /\ promises[last.p].listening
        /\ promises[last.p].status = "pending"

\* this step runs the callback of list, inspect or create without an error
\* and settles promise p
HandleOpResolves(p) ==
  /\ promises[p].op \in {"list", "inspect", "create"}
  /\ promises[p].status = "pending"
  /\ CallbackStep(p) /\ ~Truthy(last'.err)

\* the promise of p now holds one new Container per entry of the response,
\* in order, each carrying the attributes of its entry
HoldsNewHandles(p, res) ==
  /\ promises'[p].status = "resolved"
  /\ Len(handles') = Len(handles) + Len(res)
  /\ promises'[p].refs = [i \in 1..Len(res) |-> Len(handles) + i]
  /\ \A i \in 1..Len(res) :
       /\ {"modem", "fs", "id"} \subseteq DOMAIN handles'[Len(handles) + i]
       /\ \A k \in DOMAIN res[i] : handles'[Len(handles) + i][k] = res[i][k]

\* C11: list, inspect and create each return a promise that resolves with
\* new handle(s) built from the response (for list one per entry, in order,
\* with id equal to the entry's Id), and no step changes the id or the
\* attributes of the handle invoked on or of a handle returned earlier.
C11_HandlesImmutable ==
  [][/\ (last' # last /\ last'.kind = "invoke"
           /\ last'.op \in {"list", "inspect", "create"})
        => last'.outcome = "promise"
     /\ \A p \in 1..Len(promises) :
          HandleOpResolves(p)
          => /\ HoldsNewHandles(p, last'.res)
             /\ promises[p].op = "list"
                => \A i \in 1..Len(last'.res) :
                     Get(handles'[Len(handles) + i], "id")
                       = Get(last'.res[i], "Id")
     /\ \A h \in 1..Len(handles) :
          h <= Len(handles') /\ handles'[h] = handles[h]]_vars

\* the operations of Container (those of ContainerFs excluded)
ContainerOps == (OptsOps \cup OptsIdOps \cup IdOps) \ FsOps

\* the path of a descriptor with the embedded identifier abstracted away
PathTemplate(path) ==
  IF Len(path) = 3 THEN <<path[1], "{id}", path[3]>> ELSE path

\* the HTTP method and path template of a descriptor
Route(call) == <<call.method, PathTemplate(call.path)>>

\* C12: descriptors handed to dial by two distinct operations of Container
\* never have both the same HTTP method and the same path template.
C12_OneToOne ==
  \A i, j \in DOMAIN dialled :
    (/\ promises[dialled[i].p].op \in ContainerOps
     /\ promises[dialled[j].p].op \in ContainerOps
     /\ promises[dialled[i].p].op # promises[dialled[j].p].op)
    => Route(dialled[i].call) # Route(dialled[j].call)

\* C13: every invocation of an id-only operation (fs.info, changes, pause,
\* unpause, wait), with the id supplied or omitted, hands dial one
\* descriptor whose option bag is absent or empty and whose path embeds
\* the resolved identifier; no binding outside its parameters is needed.
C13_IdOnlyNoOptions ==
  IsInvoke(IdOps)
  => /\ last.outcome = "promise"
     /\ Cardinality(DialledFor(last.p)) = 1
     /\ \A i \in DialledFor(last.p) :
          /\ EmptyBag(dialled[i].call.options)
          /\ Len(dialled[i].call.path) = 3
          /\ dialled[i].call.path[2] = TemplateString(last.rid)

====
